---- MODULE Spec2Model ----
\* Model of src/mcp.py: the OBSConnection class (connect, disconnect,
\* send_command, _get_scene_item_id), the module-level _obs_connection with
\* get_obs_connection, and the ten MCP tool functions.
EXTENDS Integers, Sequences, FiniteSets, TLC

\* ---------------------------------------------------------------- bounds
MaxHandles == 3      \* obsws handles created in one run of the tools
MaxConnects == 2     \* connect() calls made directly on one object
MaxItems == 2        \* scene items in one GetSceneItemList response
MaxTeardowns == 2    \* ws.disconnect() calls on one handle

\* ---------------------------------------------------------------- values
NoHandle == 0        \* self.ws = None

SceneNames == {"Main", "Alt"}
DirectScenes == {"Main"}
SourceNames == {"Screen"}
ItemNames == {"Cam", "Screen"}
Positions ==
    {[x |-> 0, y |-> 0, scale_x |-> 1, scale_y |-> 1],
     [x |-> 7, y |-> 3, scale_x |-> 2, scale_y |-> 1]}
SceneLists == {<<>>, <<"A", "B">>, <<"B", "A">>}
Versions == {"5.0.1"}
Outcomes == {"ok", "transport", "rejected"}

KnownCommands ==
    {"switch_scene", "start_streaming", "stop_streaming", "start_recording",
     "stop_recording", "toggle_source_visibility", "add_display_capture",
     "set_source_position", "get_scene_list", "get_version"}
UnknownCommands == {"pause_recording", "Switch_Scene", ""}

Tools ==
    {"switch_scene", "start_streaming", "stop_streaming", "start_recording",
     "stop_recording", "toggle_source_visibility", "add_display_capture",
     "set_source_position", "get_scene_list", "test_obs_connection"}

\* The item lists the remote side may report for a scene: up to MaxItems
\* items, source names possibly repeated, the i-th item with id SceneItemId(i).
SceneItemId(i) == 10 * i
SceneItemLists ==
    UNION {{[i \in 1..n |-> [sourceName |-> s[i], sceneItemId |-> SceneItemId(i)]]
            : s \in [1..n -> ItemNames]} : n \in 0..MaxItems}

\* What the remote side answers during one send_command: the outcome of the
\* first and of the second protocol call, and the response payloads.  Only the
\* answers the command can observe are enumerated.
QuietEnv ==
    [o1 |-> "ok", o2 |-> "ok", items |-> <<>>, scenes |-> <<>>, version |-> ""]
FailedEnvs == {[QuietEnv EXCEPT !.o1 = o] : o \in Outcomes \ {"ok"}}
EnvsFor(command_type) ==
    IF command_type \in {"toggle_source_visibility", "set_source_position"}
    THEN FailedEnvs \cup
         {[QuietEnv EXCEPT !.items = it, !.o2 = o]
            : it \in SceneItemLists, o \in Outcomes}
    ELSE IF command_type = "get_scene_list"
    THEN FailedEnvs \cup {[QuietEnv EXCEPT !.scenes = sc] : sc \in SceneLists}
    ELSE IF command_type = "get_version"
    THEN FailedEnvs \cup {[QuietEnv EXCEPT !.version = v] : v \in Versions}
    ELSE FailedEnvs \cup {QuietEnv}

VARIABLES
    obs_connection,  \* the module global: [isNone, ws]
    handles,         \* every obsws handle created so far, by creation order
    prior,           \* connection state when the last operation started
    op,              \* the last operation
    command,         \* command_type of the last send_command
    params,          \* params of the last send_command
    connects,        \* connect attempts of the last operation
    calls,           \* ws.call(...) requests of the last operation
    result,          \* what the last send_command did
    ret              \* what the last operation did (return / raise)

vars == <<obs_connection, handles, prior, op, command, params, connects,
          calls, result, ret>>

\* ---------------------------------------------------------------- helpers
NoError == [type |-> "none", text |-> ""]
NoParams == [none \in {} |-> 0]
NoResult == [kind |-> "none"]

\* dict.get(key, default)
Get(d, key, default) == IF key \in DOMAIN d THEN d[key] ELSE default

\* f"{params.get(key)}" : a missing key is formatted as None
GetStr(d, key) == Get(d, key, "None")

\* str(e)
Str(e) == e.text

Returned(v) == [kind |-> "return", value |-> v]
Raised(e) == [kind |-> "raise", exc |-> e]

\* ---------------------------------------------------------------- OBSConnection
\* OBSConnection.__init__ : ws = None
OBSConnection == [isNone |-> FALSE, ws |-> NoHandle]

\* _obs_connection = None
NoConnection == [isNone |-> TRUE, ws |-> NoHandle]

\* OBSConnection.connect: a new obsws handle replaces self.ws (the previous
\* handle is neither disconnected nor kept), then the handshake runs; accepted
\* is whether the remote side accepts it.  Returns True / False, never raises.
connect(hs, accepted) ==
    LET h == Len(hs) + 1
    IN  [ws |-> h,
         handles |-> Append(hs, [state |-> IF accepted THEN "connected"
                                                        ELSE "failed",
                                 teardowns |-> 0]),
         value |-> accepted]

\* OBSConnection.disconnect: if self.ws: self.ws.disconnect(); self.ws is kept.
disconnect(ws, hs) ==
    IF ws # NoHandle
    THEN [hs EXCEPT ![ws] = [state |-> "disconnected",
                             teardowns |-> hs[ws].teardowns + 1]]
    ELSE hs

\* Exceptions
AttributeError ==
    [type |-> "AttributeError",
     text |-> "'NoneType' object has no attribute 'call'"]
ProtocolError(outcome) ==
    IF outcome = "rejected"
    THEN [type |-> "rejected", text |-> "request rejected by OBS"]
    ELSE [type |-> "transport", text |-> "socket is already closed."]
ValueError(scene_name, source_name) ==
    [type |-> "ValueError",
     text |-> "Source '" \o source_name \o "' not found in scene '"
              \o scene_name \o "'"]
ConnectionError ==
    [type |-> "ConnectionError", text |-> "Could not connect to OBS WebSocket."]

\* self.ws.call(request): on None the attribute lookup raises before anything
\* is sent; otherwise the request goes out on the handle and succeeds only on a
\* connected handle that the remote side answers.
call(ws, hs, req, args, outcome, items) ==
    IF ws = NoHandle
    THEN [ok |-> FALSE, err |-> AttributeError, log |-> <<>>]
    ELSE LET live == hs[ws].state = "connected"
             ok == live /\ outcome = "ok"
             err == IF ok THEN NoError
                    ELSE IF live THEN ProtocolError(outcome)
                    ELSE ProtocolError("transport")
         IN  [ok |-> ok, err |-> err,
              log |-> <<[req |-> req, args |-> args, handle |-> ws,
                         live |-> live, ok |-> ok, err |-> err,
                         items |-> IF ok THEN items ELSE <<>>]>>]

\* FirstMatch with the scan keeping the last item named source_name
LastMatch(items, source_name) ==
    LET hits == {i \in 1..Len(items) : items[i].sourceName = source_name}
    IN  IF hits = {} THEN 0
        ELSE CHOOSE i \in hits : \A j \in hits : i >= j

\* the scan of _get_scene_item_id: index of the first item named source_name,
\* 0 when there is none
FirstMatch(items, source_name) ==
    LET hits == {i \in 1..Len(items) : items[i].sourceName = source_name}
    IN  IF hits = {} THEN 0
        ELSE CHOOSE i \in hits : \A j \in hits : i <= j

\* OBSConnection._get_scene_item_id
get_scene_item_id(ws, hs, scene_name, source_name, outcome, items) ==
    LET c == call(ws, hs, "GetSceneItemList", [sceneName |-> scene_name],
                  outcome, items)
        m == FirstMatch(items, source_name)
    IN  IF ~c.ok THEN [raised |-> TRUE, err |-> c.err, log |-> c.log, id |-> 0]
        ELSE IF m = 0
        THEN [raised |-> TRUE, err |-> ValueError(scene_name, source_name),
              log |-> c.log, id |-> 0]
        ELSE [raised |-> FALSE, err |-> NoError, log |-> c.log,
              id |-> items[m].sceneItemId]

\* return {"success": True, "message": ...}
Success(message) == [success |-> TRUE, message |-> message]

\* CommandError without the except clause: the exception leaves send_command
CommandErrorPropagates(e) == Raised(e)

\* except Exception as e: return {"success": False, "message": str(e)}
CommandError(e) == Returned([success |-> FALSE, message |-> Str(e)])

\* UnknownCommand with a raise in the else branch
UnknownCommandRaises(command_type) ==
    [calls |-> <<>>,
     result |-> Raised([type |-> "ValueError",
                        text |-> "Unknown command: " \o command_type])]

\* else: return {"success": False, "message": f"Unknown command: {command_type}"}
UnknownCommand(command_type) ==
    [calls |-> <<>>,
     result |-> Returned([success |-> FALSE,
                          message |-> "Unknown command: " \o command_type])]

\* a branch of send_command that issues one request and returns message
Simple(ws, hs, req, args, outcome, message) ==
    LET c == call(ws, hs, req, args, outcome, <<>>)
    IN  [calls |-> c.log,
         result |-> IF c.ok THEN Returned(Success(message))
                    ELSE CommandError(c.err)]

\* requests.SetSceneItemEnabled(sceneName, sceneItemId, enabled)
EnabledArgs(p, id) ==
    [sceneName |-> GetStr(p, "scene_name"), sceneItemId |-> id,
     enabled |-> Get(p, "enabled", TRUE)]

\* requests.SetSceneItemTransform(sceneName, sceneItemId, sceneItemTransform)
TransformArgs(p, id) ==
    [sceneName |-> GetStr(p, "scene_name"), sceneItemId |-> id,
     sceneItemTransform |-> [positionX |-> Get(p, "x", 0),
                             positionY |-> Get(p, "y", 0),
                             scaleX |-> Get(p, "scale_x", 1),
                             scaleY |-> Get(p, "scale_y", 1)]]

\* a branch of send_command that resolves the item id and then issues req
\* with that id (toggle_source_visibility, set_source_position); self.ws.call
\* is looked up before the arguments are evaluated
WithItemId(ws, hs, req, p, env, message) ==
    IF ws = NoHandle
    THEN [calls |-> <<>>, result |-> CommandError(AttributeError)]
    ELSE
    LET r == get_scene_item_id(ws, hs, GetStr(p, "scene_name"),
                               GetStr(p, "source_name"), env.o1, env.items)
        c == call(ws, hs, req,
                  IF req = "SetSceneItemEnabled" THEN EnabledArgs(p, r.id)
                  ELSE TransformArgs(p, r.id),
                  env.o2, <<>>)
    IN  IF r.raised THEN [calls |-> r.log, result |-> CommandError(r.err)]
        ELSE [calls |-> r.log \o c.log,
              result |-> IF c.ok THEN Returned(Success(message))
                         ELSE CommandError(c.err)]

\* OBSConnection.send_command
send_command(ws, hs, command_type, p, env) ==
    CASE command_type = "switch_scene" ->
           Simple(ws, hs, "SetCurrentProgramScene",
                  [sceneName |-> GetStr(p, "scene_name")], env.o1,
                  "Switched to scene '" \o GetStr(p, "scene_name") \o "'")
      [] command_type = "start_streaming" ->
           Simple(ws, hs, "StartStream", NoParams, env.o1, "Streaming started")
      [] command_type = "stop_streaming" ->
           Simple(ws, hs, "StopStream", NoParams, env.o1, "Streaming stopped")
      [] command_type = "start_recording" ->
           Simple(ws, hs, "StartRecord", NoParams, env.o1, "Recording started")
      [] command_type = "stop_recording" ->
           Simple(ws, hs, "StopRecord", NoParams, env.o1, "Recording stopped")
      [] command_type = "toggle_source_visibility" ->
           WithItemId(ws, hs, "SetSceneItemEnabled", p, env,
                      "Source '" \o GetStr(p, "source_name") \o "' set to "
                      \o (IF "enabled" \in DOMAIN p /\ p.enabled
                          THEN "visible" ELSE "hidden"))
      [] command_type = "add_display_capture" ->
           Simple(ws, hs, "CreateSource",
                  [sourceName |-> Get(p, "source_name", "DisplayCapture"),
                   sourceKind |-> "monitor_capture",
                   sceneName |-> GetStr(p, "scene_name"),
                   sourceSettings |-> NoParams,
                   setVisible |-> TRUE], env.o1,
                  "Added display capture source '"
                  \o Get(p, "source_name", "DisplayCapture")
                  \o "' to scene '" \o GetStr(p, "scene_name") \o "'")
      [] command_type = "set_source_position" ->
           WithItemId(ws, hs, "SetSceneItemTransform", p, env,
                      "Set position of source '" \o GetStr(p, "source_name")
                      \o "' in scene '" \o GetStr(p, "scene_name") \o "'")
      [] command_type = "get_scene_list" ->
           LET c == call(ws, hs, "GetSceneList", NoParams, env.o1, <<>>)
           IN  [calls |-> c.log,
                result |-> IF c.ok
                           THEN Returned([success |-> TRUE,
                                          message |-> "Scenes retrieved",
                                          scenes |-> env.scenes])
                           ELSE CommandError(c.err)]
      [] command_type = "get_version" ->
           Simple(ws, hs, "GetVersion", NoParams, env.o1,
                  "OBS WebSocket version: " \o env.version)
      [] OTHER -> UnknownCommand(command_type)

\* get_obs_connection without the raise after the failed second attempt
get_obs_connection_noraise(conn, hs, c1, c2) ==
    LET a == connect(hs, c1)
        n == connect(a.handles, c2)
    IN  IF conn.isNone \/ a.value
        THEN [conn |-> [isNone |-> FALSE, ws |-> a.ws], handles |-> a.handles,
              connects |-> <<[handle |-> a.ws, ok |-> a.value]>>,
              raised |-> FALSE]
        ELSE [conn |-> [isNone |-> FALSE, ws |-> n.ws], handles |-> n.handles,
              connects |-> <<[handle |-> a.ws, ok |-> FALSE],
                             [handle |-> n.ws, ok |-> n.value]>>,
              raised |-> FALSE]

\* get_obs_connection that connects only when _obs_connection is None and
\* hands an existing object back as it is
get_obs_connection_keep(conn, hs, c1, c2) ==
    IF conn.isNone
    THEN LET n == connect(hs, c1)
         IN  [conn |-> [isNone |-> FALSE, ws |-> n.ws], handles |-> n.handles,
              connects |-> <<[handle |-> n.ws, ok |-> n.value]>>,
              raised |-> ~n.value]
    ELSE [conn |-> conn, handles |-> hs, connects |-> <<>>, raised |-> FALSE]

\* ---------------------------------------------------------------- module level
\* get_obs_connection: c1, c2 say whether the remote side accepts the first
\* and the second handshake this call attempts.
get_obs_connection(conn, hs, c1, c2) ==
    IF conn.isNone
    THEN LET n == connect(hs, c1)
         IN  [conn |-> [isNone |-> FALSE, ws |-> n.ws], handles |-> n.handles,
              connects |-> <<[handle |-> n.ws, ok |-> n.value]>>,
              raised |-> ~n.value]
    ELSE LET a == connect(hs, c1)
             n == connect(a.handles, c2)
         IN  IF a.value
             THEN [conn |-> [isNone |-> FALSE, ws |-> a.ws],
                   handles |-> a.handles,
                   connects |-> <<[handle |-> a.ws, ok |-> TRUE]>>,
                   raised |-> FALSE]
             ELSE [conn |-> [isNone |-> FALSE, ws |-> n.ws],
                   handles |-> n.handles,
                   connects |-> <<[handle |-> a.ws, ok |-> FALSE],
                                  [handle |-> n.ws, ok |-> n.value]>>,
                   raised |-> ~n.value]

\* the connection state an operation finds (spec 4.1 names them)
ConnState(conn, hs) ==
    IF conn.isNone \/ conn.ws = NoHandle THEN "Uninitialized"
    ELSE IF hs[conn.ws].state = "connected" THEN "Connected"
    ELSE IF hs[conn.ws].state = "disconnected" THEN "Disconnected"
    ELSE "Failed"

\* ToolError without the except clause: the exception leaves the tool function
ToolErrorPropagates(e) == Raised(e)

\* the tool's except clause:
\* return json.dumps({"status": "error", "message": str(e)})
ToolError(e) == Returned([status |-> "error", message |-> Str(e)])

\* return json.dumps({"status": ..., "message": result["message"]})
ToolStatus(r) ==
    [status |-> IF r.success THEN "success" ELSE "error",
     message |-> r.message]

\* get_scene_list's return: the status plus result.get("scenes", [])
ToolStatusScenes(r) ==
    [status |-> IF r.success THEN "success" ELSE "error",
     message |-> r.message, scenes |-> Get(r, "scenes", <<>>)]

\* the body shared by the ten tool functions; c1, c2 and env are the remote
\* side's answers during this invocation
Tool(tool, command_type, p) ==
    \E c1 \in BOOLEAN :
    \E c2 \in IF obs_connection.isNone \/ c1 THEN {TRUE} ELSE BOOLEAN :
    \E g \in {get_obs_connection(obs_connection, handles, c1, c2)} :
        /\ Len(g.handles) <= MaxHandles
        /\ \E env \in IF g.raised THEN {QuietEnv} ELSE EnvsFor(command_type) :
           \E s \in {send_command(g.conn.ws, g.handles, command_type, p, env)} :
              /\ prior' = ConnState(obs_connection, handles)
              /\ op' = tool
              /\ command' = command_type
              /\ params' = p
              /\ obs_connection' = g.conn
              /\ handles' = g.handles
              /\ connects' = g.connects
              /\ IF g.raised
                 THEN /\ calls' = <<>>
                      /\ result' = NoResult
                      /\ ret' = ToolError(ConnectionError)
                 ELSE /\ calls' = s.calls
                      /\ result' = s.result
                      /\ ret' = IF s.result.kind = "raise"
                                THEN ToolError(s.result.exc)
                                ELSE IF tool = "get_scene_list"
                                THEN Returned(ToolStatusScenes(s.result.value))
                                ELSE Returned(ToolStatus(s.result.value))

switch_scene ==
    \E scene_name \in SceneNames :
        Tool("switch_scene", "switch_scene", [scene_name |-> scene_name])

start_streaming == Tool("start_streaming", "start_streaming", NoParams)

stop_streaming == Tool("stop_streaming", "stop_streaming", NoParams)

start_recording == Tool("start_recording", "start_recording", NoParams)

stop_recording == Tool("stop_recording", "stop_recording", NoParams)

toggle_source_visibility ==
    \E scene_name \in SceneNames, source_name \in SourceNames,
       enabled \in BOOLEAN :
        Tool("toggle_source_visibility", "toggle_source_visibility",
             [scene_name |-> scene_name, source_name |-> source_name,
              enabled |-> enabled])

add_display_capture ==
    \E scene_name \in SceneNames,
       source_name \in SourceNames \cup {"DisplayCapture"} :
        Tool("add_display_capture", "add_display_capture",
             [scene_name |-> scene_name, source_name |-> source_name])

set_source_position ==
    \E scene_name \in SceneNames, source_name \in SourceNames,
       pos \in Positions :
        Tool("set_source_position", "set_source_position",
             [scene_name |-> scene_name, source_name |-> source_name,
              x |-> pos.x, y |-> pos.y, scale_x |-> pos.scale_x,
              scale_y |-> pos.scale_y])

get_scene_list == Tool("get_scene_list", "get_scene_list", NoParams)

test_obs_connection == Tool("test_obs_connection", "get_version", NoParams)

\* the remote side or the network drops an established transport
TransportDrop ==
    \E h \in 1..Len(handles) :
        /\ handles[h].state = "connected"
        /\ handles' = [handles EXCEPT ![h].state = "dropped"]
        /\ prior' = ConnState(obs_connection, handles)
        /\ op' = "transport_drop"
        /\ command' = ""
        /\ params' = NoParams
        /\ connects' = <<>>
        /\ calls' = <<>>
        /\ result' = NoResult
        /\ ret' = NoResult
        /\ UNCHANGED obs_connection

Init ==
    /\ obs_connection = NoConnection
    /\ handles = <<>>
    /\ prior = "Uninitialized"
    /\ op = "init"
    /\ command = ""
    /\ params = NoParams
    /\ connects = <<>>
    /\ calls = <<>>
    /\ result = NoResult
    /\ ret = NoResult

Next ==
    \/ switch_scene
    \/ start_streaming
    \/ stop_streaming
    \/ start_recording
    \/ stop_recording
    \/ toggle_source_visibility
    \/ add_display_capture
    \/ set_source_position
    \/ get_scene_list
    \/ test_obs_connection
    \/ TransportDrop

Spec == Init /\ [][Next]_vars

\* ---------------------------------------------------------------- direct use
\* The OBSConnection methods called directly on one constructed object.
InitAPI ==
    /\ obs_connection = OBSConnection
    /\ handles = <<>>
    /\ prior = "Uninitialized"
    /\ op = "init"
    /\ command = ""
    /\ params = NoParams
    /\ connects = <<>>
    /\ calls = <<>>
    /\ result = NoResult
    /\ ret = NoResult

\* the parameter mappings a caller may pass, keys with defaults left out too
ParamsFor(command_type) ==
    IF command_type = "switch_scene"
    THEN {NoParams} \cup {[scene_name |-> sc] : sc \in DirectScenes}
    ELSE IF command_type = "toggle_source_visibility"
    THEN {[scene_name |-> sc, source_name |-> so]
            : sc \in DirectScenes, so \in SourceNames}
         \cup {[scene_name |-> sc, source_name |-> so, enabled |-> e]
            : sc \in DirectScenes, so \in SourceNames, e \in BOOLEAN}
    ELSE IF command_type = "add_display_capture"
    THEN {[scene_name |-> sc] : sc \in DirectScenes}
         \cup {[scene_name |-> sc, source_name |-> so]
            : sc \in DirectScenes, so \in SourceNames}
    ELSE IF command_type = "set_source_position"
    THEN {[scene_name |-> sc, source_name |-> so]
            : sc \in DirectScenes, so \in SourceNames}
         \cup {[scene_name |-> sc, source_name |-> so, x |-> pos.x,
                y |-> pos.y, scale_x |-> pos.scale_x, scale_y |-> pos.scale_y]
            : sc \in DirectScenes, so \in SourceNames, pos \in Positions}
    ELSE {NoParams}

Connect ==
    \E accepted \in BOOLEAN :
    \E n \in {connect(handles, accepted)} :
        /\ Len(n.handles) <= MaxConnects
        /\ prior' = ConnState(obs_connection, handles)
        /\ op' = "connect"
        /\ command' = ""
        /\ params' = NoParams
        /\ obs_connection' = [obs_connection EXCEPT !.ws = n.ws]
        /\ handles' = n.handles
        /\ connects' = <<[handle |-> n.ws, ok |-> n.value]>>
        /\ calls' = <<>>
        /\ result' = NoResult
        /\ ret' = Returned([value |-> n.value])

Disconnect ==
    /\ obs_connection.ws # NoHandle
       => handles[obs_connection.ws].teardowns < MaxTeardowns
    /\ prior' = ConnState(obs_connection, handles)
    /\ op' = "disconnect"
    /\ command' = ""
    /\ params' = NoParams
    /\ handles' = disconnect(obs_connection.ws, handles)
    /\ connects' = <<>>
    /\ calls' = <<>>
    /\ result' = NoResult
    /\ ret' = Returned([value |-> "None"])
    /\ UNCHANGED obs_connection

SendCommand ==
    \E command_type \in KnownCommands \cup UnknownCommands :
    \E p \in ParamsFor(command_type) :
    \E env \in IF ConnState(obs_connection, handles) = "Connected"
               THEN EnvsFor(command_type) ELSE {QuietEnv} :
    \E s \in {send_command(obs_connection.ws, handles, command_type, p, env)} :
        /\ prior' = ConnState(obs_connection, handles)
        /\ op' = "send_command"
        /\ command' = command_type
        /\ params' = p
        /\ connects' = <<>>
        /\ calls' = s.calls
        /\ result' = s.result
        /\ ret' = s.result
        /\ UNCHANGED <<obs_connection, handles>>

NextAPI ==
    \/ Connect
    \/ Disconnect
    \/ SendCommand
    \/ TransportDrop

SpecAPI == InitAPI /\ [][NextAPI]_vars

\* ---------------------------------------------------------------- properties
ItemCommands == {"toggle_source_visibility", "set_source_position"}

SetRequest(command_type) ==
    IF command_type = "toggle_source_visibility" THEN "SetSceneItemEnabled"
    ELSE "SetSceneItemTransform"

LiveHandles == {h \in 1..Len(handles) : handles[h].state = "connected"}

LastConnectOk == connects # <<>> /\ connects[Len(connects)].ok

\* C1: every tool invocation returns a status object whose status is
\* "success" or "error" and that carries a message, whatever the connect and
\* protocol-call outcomes; no exception leaves the tool function, also when
\* the connection cannot be established (then the status is "error").
C1_ToolReturnsStatus ==
    op \in Tools =>
        /\ ret.kind = "return"
        /\ ret.value.status \in {"success", "error"}
        /\ "message" \in DOMAIN ret.value
        /\ ~LastConnectOk => ret.value.status = "error"

C1_Witness ==
    /\ op \in Tools
    /\ ~LastConnectOk
    /\ ret.kind = "return"
    /\ ret.value = [status |-> "error",
                    message |-> "Could not connect to OBS WebSocket."]

\* C2 (as claimed): a get_obs_connection call made while the connection is
\* established opens no new transport handle and issues no connect.
C2_NoHandshakeWhileConnected ==
    op \in Tools /\ prior = "Connected" => connects = <<>>

\* C3 (as claimed): at most one transport handle is connected and not yet
\* disconnected.
C3_AtMostOneLiveHandle == Cardinality(LiveHandles) <= 1

\* C4: every protocol call of a tool invocation follows a get_obs_connection
\* of the same invocation that returned normally: the call goes out on the
\* connection's handle, which is non-null, whose connect was the last attempt
\* and succeeded, and which is connected when the call is made; when
\* get_obs_connection fails the invocation issues no protocol call.
C4_CallsOnlyOnEnsuredConnection ==
    op \in Tools =>
        /\ \A i \in 1..Len(calls) :
              /\ LastConnectOk
              /\ calls[i].handle # NoHandle
              /\ calls[i].handle = connects[Len(connects)].handle
              /\ calls[i].handle = obs_connection.ws
              /\ calls[i].live
        /\ ~LastConnectOk => calls = <<>>

C4_Witness ==
    /\ op \in Tools
    /\ Len(connects) = 2
    /\ LastConnectOk
    /\ calls # <<>>
    /\ calls[1].ok

\* C5 (as claimed): one get_obs_connection call makes at most one attempt to
\* establish the transport.
C5_AtMostOneConnectAttempt == op \in Tools => Len(connects) <= 1

\* C6: when a protocol call fails while send_command runs a known command
\* (transport error or rejection by the remote side), or the item-id lookup
\* finds no item, send_command returns success = false with the message of
\* the cause and raises nothing.
C6_ProtocolFailureBecomesResult ==
    op \in Tools /\ result.kind # "none" /\ command \in KnownCommands =>
        /\ result.kind = "return"
        /\ \A i \in 1..Len(calls) :
              ~calls[i].ok =>
                  /\ calls[i].err.type \in {"transport", "rejected"}
                  /\ result.value = [success |-> FALSE,
                                     message |-> calls[i].err.text]
        /\ (/\ command \in ItemCommands
            /\ Len(calls) = 1
            /\ calls[1].ok)
           => /\ ~result.value.success
              /\ result.value.message =
                    "Source '" \o params.source_name
                    \o "' not found in scene '" \o params.scene_name \o "'"

C6_Witness ==
    /\ op \in Tools
    /\ command \in ItemCommands
    /\ Len(calls) = 2
    /\ ~calls[2].ok
    /\ calls[2].err.type = "rejected"
    /\ result = [kind |-> "return",
                 value |-> [success |-> FALSE,
                            message |-> "request rejected by OBS"]]

\* C7: for a command name outside the ten known names send_command returns
\* success = false with the message "Unknown command: <name>", issues no
\* protocol call and raises nothing.
C7_UnknownCommandRejected ==
    op = "send_command" /\ command \notin KnownCommands =>
        /\ result.kind = "return"
        /\ result.value = [success |-> FALSE,
                           message |-> "Unknown command: " \o command]
        /\ calls = <<>>

C7_Witness ==
    /\ op = "send_command"
    /\ command = "pause_recording"
    /\ prior = "Connected"
    /\ result.kind = "return"
    /\ result.value.message = "Unknown command: pause_recording"

\* C8 (as claimed): consecutive disconnect calls tear a transport handle down
\* exactly once; disconnect on a disconnected connection is a no-op.
C8_TearDownOnce ==
    \A h \in 1..Len(handles) : handles[h].teardowns <= 1

\* C9: toggle_source_visibility and set_source_position first query the item
\* list of the named scene, then issue the set-item-enabled /
\* set-item-transform call with the id of the first listed item whose source
\* name equals source_name; when no listed item matches no such call is
\* issued and the result is success = false with a message naming the scene
\* and the source.
C9_FirstMatchingItemId ==
    op \in Tools /\ command \in ItemCommands /\ calls # <<>> =>
        LET q == calls[1]
            named == {i \in 1..Len(q.items) :
                          q.items[i].sourceName = params.source_name}
        IN  /\ q.req = "GetSceneItemList"
            /\ q.args = [sceneName |-> params.scene_name]
            /\ Len(calls) <= 2
            /\ ~q.ok => Len(calls) = 1
            /\ (q.ok /\ named # {}) =>
                  /\ Len(calls) = 2
                  /\ calls[2].req = SetRequest(command)
                  /\ calls[2].args.sceneName = params.scene_name
                  /\ \E i \in named :
                        /\ \A j \in named : i <= j
                        /\ calls[2].args.sceneItemId = q.items[i].sceneItemId
            /\ (q.ok /\ named = {}) =>
                  /\ Len(calls) = 1
                  /\ result.kind = "return"
                  /\ result.value =
                        [success |-> FALSE,
                         message |-> "Source '" \o params.source_name
                                     \o "' not found in scene '"
                                     \o params.scene_name \o "'"]

C9_Witness ==
    /\ op = "toggle_source_visibility"
    /\ Len(calls) = 2
    /\ Len(calls[1].items) = 2
    /\ calls[1].items[1].sourceName = "Screen"
    /\ calls[1].items[2].sourceName = "Screen"
    /\ calls[2].req = "SetSceneItemEnabled"
    /\ calls[2].args.sceneItemId = SceneItemId(1)
    /\ result.value.success

\* C10: a get_obs_connection call that starts in the Failed state (the last
\* connect failed, or the transport dropped) and during which the remote side
\* refuses no handshake makes a handshake, leaves the connection on a
\* connected handle and returns normally, and the invocation issues its
\* protocol calls on that live handle.
C10_RecoveryAfterFailure ==
    (/\ op \in Tools
     /\ prior = "Failed"
     /\ \A i \in 1..Len(connects) : connects[i].ok)
    => /\ connects # <<>>
       /\ ~obs_connection.isNone
       /\ obs_connection.ws # NoHandle
       /\ handles[obs_connection.ws].state = "connected"
       /\ calls # <<>>
       /\ \A i \in 1..Len(calls) :
             calls[i].handle = obs_connection.ws /\ calls[i].live

C10_Witness ==
    /\ op \in Tools
    /\ prior = "Failed"
    /\ Len(connects) = 1
    /\ connects[1].ok
    /\ \E h \in 1..Len(handles) : handles[h].state = "dropped"
    /\ calls # <<>>
    /\ calls[1].ok
    /\ ret.value.status = "success"

====
